---- MODULE Spec2Model ----
(***************************************************************************)
(* A model of nba_shotchart.py: the stats retriever                        *)
(* get_player_shotchartdetail, the court renderer draw_court, the shot     *)
(* plotter plot_shot_chart and the __main__ script.                        *)
(*                                                                         *)
(* Lengths and coordinates are integers in TENTHS of a court unit, so that *)
(* the source's 7.5, 12.5, 47.5, 142.5 and 422.5 are 75, 125, 475, 1425    *)
(* and 4225.  Angles are degrees, line widths are the source's numbers.    *)
(*                                                                         *)
(* A pandas cell is a sequence: <<>> is a null cell (None / NaN) and <<v>> *)
(* is a cell holding v.  A DataFrame is [columns, rows]: the set of its    *)
(* column names and the sequence of its rows, each row a function from the *)
(* frame's columns to cells.                                               *)
(***************************************************************************)
EXTENDS Integers, Sequences, FiniteSets, TLC

VARIABLES
    pc,           \* position of the running script, or the last direct call
    player_name,  \* sys.argv[1] or its default
    season_id,    \* sys.argv[2] or its default
    requests,     \* provider interactions issued so far, in order
    data,         \* the shot DataFrame handed to plot_shot_chart
    args,         \* keyword arguments of plot_shot_chart / draw_court
    ax,           \* the matplotlib Axes (drawing surface)
    calls,        \* every draw_court invocation so far, with what it added
    plots,        \* every plot_shot_chart invocation so far, with its outcome
    career_df,    \* get_player_shotchartdetail's local: the career response
    team_id,      \* get_player_shotchartdetail's local: <<>> until selected
    exc,          \* class of the exception that ended the last call, or "none"
    failure,      \* the condition that made the call fail (for the claims)
    shown         \* plt.show() has run

vars == <<pc, player_name, season_id, requests, data, args, ax, calls, plots,
          career_df, team_id, exc, failure, shown>>

----------------------------------------------------------------------------
(* Bounds of the model *)

\* most rows of a shot DataFrame
MaxShots == 3

\* most rows of a career DataFrame
MaxCareerRows == 2

\* most direct calls of draw_court / plot_shot_chart on one Axes
MaxCalls == 2

----------------------------------------------------------------------------
(* pandas cells and frames *)

Null == <<>>

Cell(v) == <<v>>

Indices(s) == [i \in 1..Len(s) |-> i]

\* data[col] == value : a boolean mask over the rows; a null cell equals
\* nothing, so its entry is False
mask_eq(df, col, value) ==
    [i \in 1..Len(df.rows) |-> df.rows[i][col] = Cell(value)]

\* data.loc[mask, col] : the cells of column col in the rows the mask selects,
\* in row order
loc(df, m, col) ==
    LET keep == SelectSeq(Indices(df.rows), LAMBDA i : m[i])
    IN  [k \in 1..Len(keep) |-> df.rows[keep[k]][col]]

----------------------------------------------------------------------------
(* matplotlib Axes *)

\* the Axes plt.gca() makes: view limits (0.0, 1.0) on both axes (10 tenths),
\* autoscaling on, no pending autoscale request, nothing drawn
FreshAxes ==
    [xlim |-> <<0, 10>>, ylim |-> <<0, 10>>,
     autoscalex_on |-> TRUE, autoscaley_on |-> TRUE,
     stale_viewlim_x |-> FALSE, stale_viewlim_y |-> FALSE,
     title |-> <<>>, labelbottom |-> TRUE, labelleft |-> TRUE,
     patches |-> <<>>, collections |-> <<>>, legend |-> <<>>]

\* Axes.set_xlim(left, right): sets the view limits, drops a pending autoscale
\* request and, auto being False by default, turns autoscaling of the axis off
set_xlim(a, left, right) ==
    [a EXCEPT !.xlim = <<left, right>>, !.stale_viewlim_x = FALSE,
              !.autoscalex_on = FALSE]

set_ylim(a, bottom, top) ==
    [a EXCEPT !.ylim = <<bottom, top>>, !.stale_viewlim_y = FALSE,
              !.autoscaley_on = FALSE]

set_title(a, t) == [a EXCEPT !.title = t]

tick_params(a, bottom, left) ==
    [a EXCEPT !.labelbottom = bottom, !.labelleft = left]

\* Axes.add_patch: appends the patch.  It updates the data limits and requests
\* no autoscale, so the view limits stay as they are.
add_patch(a, p) == [a EXCEPT !.patches = Append(@, p)]

\* Axes._request_autoscale_view: marks the view limits of both axes stale
request_autoscale_view(a) ==
    [a EXCEPT !.stale_viewlim_x = TRUE, !.stale_viewlim_y = TRUE]

\* Axes.scatter(x, y, ...): one collection whose offsets pair the two series
\* position by position (points with a null coordinate are masked and not
\* drawn), and a request to autoscale the view
scatter(a, xs, ys, style) ==
    LET offsets == [i \in 1..Len(xs) |-> <<xs[i], ys[i]>>]
    IN  request_autoscale_view(
            [a EXCEPT !.collections =
                          Append(@, [label |-> style.label, marker |-> style.marker,
                                     c |-> style.c, edgecolors |-> style.edgecolors,
                                     facecolors |-> style.facecolors,
                                     s |-> style.s, linewidths |-> style.linewidths,
                                     offsets |-> offsets])])

\* Axes.get_xlim / get_ylim read xlim / ylim unless the axis has a pending
\* autoscale request and autoscaling on: then the limits are recomputed from
\* the data limits of what is on the Axes (with the 5% margin), and the stored
\* xlim / ylim are not what is shown.  The model keeps that as a flag and
\* does not compute the data limits, which the arcs make irrational.
autoscales_x(a) == a.stale_viewlim_x /\ a.autoscalex_on

autoscales_y(a) == a.stale_viewlim_y /\ a.autoscaley_on

\* Axes.legend(): one entry per labelled artist, in drawing order
legend(a) ==
    [a EXCEPT !.legend = [i \in 1..Len(a.collections) |-> a.collections[i].label]]

\* the points of a collection that are drawn: the unmasked offsets
Drawn(coll) == SelectSeq(coll.offsets, LAMBDA o : o[1] # Null /\ o[2] # Null)

----------------------------------------------------------------------------
(* draw_court *)

Patch(kind, xy, width, height, theta1, theta2, lw, color, fill) ==
    [kind |-> kind, xy |-> xy, width |-> width, height |-> height,
     theta1 |-> theta1, theta2 |-> theta2, linewidth |-> lw, color |-> color,
     fill |-> fill]

\* Circle(xy, radius, ...): an ellipse of width and height 2 * radius
Circle(xy, radius, lw, color, fill) ==
    Patch("Circle", xy, 2 * radius, 2 * radius, 0, 360, lw, color, fill)

\* Rectangle(xy, width, height, ...): filled unless fill=False is given
Rectangle(xy, width, height, lw, color, fill) ==
    Patch("Rectangle", xy, width, height, 0, 360, lw, color, fill)

\* Arc(xy, width, height, theta1, theta2, ...): an arc is never filled
Arc(xy, width, height, theta1, theta2, lw, color) ==
    Patch("Arc", xy, width, height, theta1, theta2, lw, color, FALSE)

\* the list court_elements before the outer_lines test
base_elements(color, lw) ==
    << Circle(<<0, 0>>, 75, lw, color, FALSE),                     \* Hoop
       Rectangle(<<-300, -125>>, 600, 0, lw, color, TRUE),         \* Backboard
       Rectangle(<<-800, -475>>, 1600, 1900, lw, color, FALSE),    \* Paint (outer box)
       Rectangle(<<-600, -475>>, 1200, 1900, lw, color, FALSE),    \* Paint (inner box)
       Arc(<<0, 1425>>, 1200, 1200, 0, 180, lw, color),            \* Free-throw top
       Arc(<<0, 1425>>, 1200, 1200, 180, 0, lw, color),            \* Free-throw bottom
       Arc(<<0, 0>>, 800, 800, 0, 180, lw, color),                 \* Restricted area
       Rectangle(<<-2200, -475>>, 0, 1400, lw, color, TRUE),       \* Corner 3A
       Rectangle(<<2200, -475>>, 0, 1400, lw, color, TRUE),        \* Corner 3B
       Arc(<<0, 0>>, 4750, 4750, 22, 158, lw, color),              \* 3-point arc
       Arc(<<0, 4225>>, 1200, 1200, 180, 0, lw, color),            \* Center court outer
       Arc(<<0, 4225>>, 400, 400, 180, 0, lw, color) >>            \* Center court inner

outer_boundary(color, lw) ==
    Rectangle(<<-2500, -475>>, 5000, 4700, lw, color, FALSE)

\* a faulty draw_court: the hoop is left out of the list
court_elements_no_hoop(color, lw, outer_lines) ==
    Tail(base_elements(color, lw))
        \o (IF outer_lines THEN <<outer_boundary(color, lw)>> ELSE <<>>)

\* a faulty draw_court: the list lives across calls, so the boundaries that
\* earlier calls appended are still in it
court_elements_shared(color, lw, outer_lines) ==
    LET earlier == SelectSeq(calls, LAMBDA c : c.outer_lines)
    IN  base_elements(color, lw)
            \o [k \in 1..Len(earlier) |-> outer_boundary(earlier[k].color, earlier[k].lw)]
            \o (IF outer_lines THEN <<outer_boundary(color, lw)>> ELSE <<>>)

\* the list court_elements that draw_court builds on every call
court_elements(color, lw, outer_lines) ==
    base_elements(color, lw)
        \o (IF outer_lines THEN <<outer_boundary(color, lw)>> ELSE <<>>)

RECURSIVE add_patches(_, _)
\* for element in court_elements: ax.add_patch(element)
add_patches(a, elements) ==
    IF elements = <<>> THEN a
    ELSE add_patches(add_patch(a, Head(elements)), Tail(elements))

draw_court(a, color, lw, outer_lines) ==
    add_patches(a, court_elements(color, lw, outer_lines))

\* the record of one draw_court invocation: its arguments, its caller, what
\* it appended to the Axes' patches and how many series were on the Axes
court_call(before, after, color, lw, outer_lines, by) ==
    [color |-> color, lw |-> lw, outer_lines |-> outer_lines, by |-> by,
     series_before |-> Len(before.collections),
     added |-> SubSeq(after.patches, Len(before.patches) + 1, Len(after.patches))]

----------------------------------------------------------------------------
(* plot_shot_chart *)

\* a faulty plot_shot_chart: the court is stroked with court_color
stroke_court_color(court_color, line_color) == court_color

\* the color plot_shot_chart hands to draw_court
court_stroke(court_color, line_color) == line_color

\* a faulty classification: every record that is not a miss counts as made
series_mask_loose(df, event) ==
    IF event = "Made Shot"
    THEN [i \in 1..Len(df.rows) |-> df.rows[i]["EVENT_TYPE"] # Cell("Missed Shot")]
    ELSE mask_eq(df, "EVENT_TYPE", event)

\* data['EVENT_TYPE'] == event
series_mask(df, event) == mask_eq(df, "EVENT_TYPE", event)

MissedStyle ==
    [label |-> "Missed", marker |-> "x", c |-> "r", edgecolors |-> "face",
     facecolors |-> "r", s |-> 100, linewidths |-> 1]

MadeStyle ==
    [label |-> "Made", marker |-> "o", c |-> "none", edgecolors |-> "g",
     facecolors |-> "none", s |-> 100, linewidths |-> 1]

\* a faulty axis configuration: set_xlim / set_ylim with auto=None, so the
\* limits are set and autoscaling stays as it was
configure_axis_autoscaling(a, title) ==
    tick_params(
        set_title([a EXCEPT !.xlim = <<-2500, 2500>>, !.stale_viewlim_x = FALSE,
                            !.ylim = <<4225, -475>>, !.stale_viewlim_y = FALSE],
                  title),
        FALSE, FALSE)

\* the "Configure axis" block
configure_axis(a, title) ==
    tick_params(
        set_title(set_ylim(set_xlim(a, -2500, 2500), 4225, -475), title),
        FALSE, FALSE)

\* the columns the two scatter calls index
ScatterColumns == {"EVENT_TYPE", "LOC_X", "LOC_Y"}

\* plot_shot_chart(data, title, ax, court_color, court_lw, line_color): the
\* Axes it leaves, the exception it raises ("none" when it returns) and the
\* draw_court invocation it made
plot_shot_chart(df, title, a, court_color, court_lw, line_color) ==
    LET a1     == configure_axis(a, title)
        stroke == court_stroke(court_color, line_color)
        a2     == draw_court(a1, stroke, court_lw, FALSE)
        court  == court_call(a1, a2, stroke, court_lw, FALSE, "plot_shot_chart")
        missed == series_mask(df, "Missed Shot")
        made   == series_mask(df, "Made Shot")
        a3     == scatter(a2, loc(df, missed, "LOC_X"), loc(df, missed, "LOC_Y"),
                          MissedStyle)
        a4     == scatter(a3, loc(df, made, "LOC_X"), loc(df, made, "LOC_Y"),
                          MadeStyle)
    IN  IF ScatterColumns \subseteq df.columns
        THEN [ax |-> legend(a4), exc |-> "none", court |-> court]
        ELSE [ax |-> a2, exc |-> "KeyError", court |-> court]

----------------------------------------------------------------------------
(* get_player_shotchartdetail *)

\* players.get_players(): the static player directory
nba_players ==
    << [id |-> 1, full_name |-> "Zach Edey"],
       [id |-> 2, full_name |-> "LeBron James"] >>

\* a faulty lookup: the first entry of the directory is the default
find_player_default_first(directory, name) ==
    LET hits == SelectSeq(directory, LAMBDA p : p.full_name = name)
    IN  IF hits = <<>> THEN <<directory[1]>> ELSE <<Head(hits)>>

\* next((p for p in nba_players if p['full_name'] == player_name), None):
\* <<>> is None, <<p>> is the first entry with that full name
find_player(directory, name) ==
    LET hits == SelectSeq(directory, LAMBDA p : p.full_name = name)
    IN  IF hits = <<>> THEN <<>> ELSE <<Head(hits)>>

\* a faulty selection: .iloc[-1], the last row of the season
team_ids_last_first(df, season) ==
    LET m   == mask_eq(df, "SEASON_ID", season)
        sel == loc(df, m, "TEAM_ID")
    IN  [k \in 1..Len(sel) |-> sel[Len(sel) + 1 - k]]

\* career_df.loc[career_df['SEASON_ID'] == season_id, 'TEAM_ID']
team_ids(df, season) ==
    loc(df, mask_eq(df, "SEASON_ID", season), "TEAM_ID")

\* the outcome of lines 30-32 on a provider response: the exception raised
\* (with the condition behind it) or the team id .iloc[0] selects
select_team(resp, season) ==
    IF resp.status = "error"
    THEN [exc |-> "NetworkError", failure |-> "NetworkError", team_id |-> <<>>]
    ELSE IF resp.frames = <<>>
    THEN [exc |-> "IndexError", failure |-> "MalformedResponse", team_id |-> <<>>]
    ELSE IF ~ ({"SEASON_ID", "TEAM_ID"} \subseteq resp.frames[1].columns)
    THEN [exc |-> "KeyError", failure |-> "MalformedResponse", team_id |-> <<>>]
    ELSE IF team_ids(resp.frames[1], season) = <<>>
    THEN [exc |-> "IndexError", failure |-> "SeasonNotFound", team_id |-> <<>>]
    ELSE [exc |-> "none", failure |-> "none",
          team_id |-> team_ids(resp.frames[1], season)[1]]

\* the outcome of lines 35-43 on a provider response: the exception raised or
\* the first frame, which __main__ keeps
select_shots(resp) ==
    IF resp.status = "error"
    THEN [exc |-> "NetworkError", failure |-> "NetworkError"]
    ELSE IF Len(resp.frames) < 2
    THEN [exc |-> "IndexError", failure |-> "MalformedResponse"]
    ELSE [exc |-> "none", failure |-> "none", data |-> resp.frames[1]]

----------------------------------------------------------------------------
(* The inputs the model draws from *)

PlayerNames == {"Zach Edey", "LeBron James", "Nonexistent Player"}

Seasons == {"2024-25", "2023-24"}

Colors == {"white", "blue"}

LineWidths == {1, 2}

Shot(event, x, y) == [EVENT_TYPE |-> event, LOC_X |-> x, LOC_Y |-> y]

\* a made shot, a missed shot outside the court, a record of another event
\* type, and records with a null coordinate or a null outcome
ShotRows ==
    { Shot(Cell("Made Shot"), Cell(0), Cell(1000)),
      Shot(Cell("Missed Shot"), Cell(-2600), Cell(4500)),
      Shot(Cell("Unknown"), Cell(100), Cell(100)),
      Shot(Cell("Missed Shot"), Null, Cell(500)),
      Shot(Null, Cell(100), Cell(100)) }

\* the rows of the frames that lack a column
FewShotRows ==
    { Shot(Cell("Made Shot"), Cell(0), Cell(1000)),
      Shot(Cell("Missed Shot"), Cell(-2600), Cell(4500)) }

Restrict(row, columns) == [c \in columns |-> row[c]]

\* the frames of at most n rows from Rows, with each of the column sets
FramesOver(Rows, ColumnSets, n) ==
    UNION { UNION { { [columns |-> cols,
                       rows |-> [i \in 1..k |-> Restrict(rs[i], cols)]]
                      : rs \in [1..k -> Rows] }
                    : k \in 0..n }
            : cols \in ColumnSets }

\* the column sets of the frames whose records all lack one field
LackingOne == {ScatterColumns \ {c} : c \in ScatterColumns}

ShotFrames ==
    FramesOver(ShotRows, {ScatterColumns}, MaxShots)
        \cup FramesOver(FewShotRows, LackingOne, MaxShots)

CareerRows ==
    { [SEASON_ID |-> Cell(s), TEAM_ID |-> Cell(t)] : s \in Seasons, t \in {10, 20} }

CareerFrames ==
    FramesOver(CareerRows, SUBSET {"SEASON_ID", "TEAM_ID"}, MaxCareerRows)

NoFrame == [columns |-> {}, rows |-> <<>>]

\* the second frame of a shot-chart response, which nothing reads
LeagueAverages == NoFrame

CareerResponses ==
    {[status |-> "error", frames |-> <<>>], [status |-> "ok", frames |-> <<>>]}
        \cup {[status |-> "ok", frames |-> <<f>>] : f \in CareerFrames}

ShotResponses ==
    {[status |-> "error", frames |-> <<>>], [status |-> "ok", frames |-> <<>>],
     [status |-> "ok", frames |-> <<NoFrame>>]}
        \cup {[status |-> "ok", frames |-> <<f, LeagueAverages>>] : f \in ShotFrames}

----------------------------------------------------------------------------
(* The script: __main__ *)

Request(endpoint, player_id, team, season) ==
    [endpoint |-> endpoint, player_id |-> player_id, team_id |-> team,
     season |-> season]

\* nothing in the script catches an exception: a raise ends the run
after(e, next) == IF e = "none" THEN next ELSE "aborted"

\* the defaults of plot_shot_chart, with the title __main__ passes
MainArgs ==
    [court_color |-> "white", court_lw |-> 2, line_color |-> "blue",
     title |-> <<player_name, " Shot Chart ", season_id>>]

Init ==
    /\ pc = "start"
    /\ player_name \in PlayerNames
    /\ season_id \in Seasons
    /\ requests = <<>>
    /\ data = NoFrame
    /\ args = MainArgs
    /\ ax = FreshAxes
    /\ calls = <<>>
    /\ plots = <<>>
    /\ career_df = <<>>
    /\ team_id = <<>>
    /\ exc = "none"
    /\ failure = "none"
    /\ shown = FALSE

\* lines 24-27: the directory lookup and the not-found test
GetPlayers ==
    /\ pc = "start"
    /\ requests' = Append(requests, Request("get_players", <<>>, <<>>, <<>>))
    /\ LET player == find_player(nba_players, player_name)
       IN  /\ exc' = IF player = <<>> THEN "ValueError" ELSE "none"
           /\ failure' = IF player = <<>> THEN "PlayerNotFound" ELSE "none"
           /\ pc' = after(exc', "career")
    /\ UNCHANGED <<player_name, season_id, data, args, ax, calls, plots,
                   career_df, team_id, shown>>

\* lines 30-32: the career request and the selection of the season's team
PlayerCareerStats ==
    /\ pc = "career"
    /\ \E resp \in CareerResponses :
          LET player == find_player(nba_players, player_name)[1]
              r      == select_team(resp, season_id)
          IN  /\ requests' = Append(requests,
                                    Request("PlayerCareerStats", player.id, <<>>, <<>>))
              /\ career_df' = resp.frames
              /\ team_id' = r.team_id
              /\ exc' = r.exc
              /\ failure' = r.failure
              /\ pc' = after(r.exc, "shots")
    /\ UNCHANGED <<player_name, season_id, data, args, ax, calls, plots, shown>>

\* lines 35-43: the shot-chart request and the return; the locals end here
ShotChartDetail ==
    /\ pc = "shots"
    /\ \E resp \in ShotResponses :
          LET player == find_player(nba_players, player_name)[1]
              r      == select_shots(resp)
          IN  /\ requests' = Append(requests,
                                    Request("ShotChartDetail", player.id, team_id[1],
                                            season_id))
              /\ data' = IF r.exc = "none" THEN r.data ELSE data
              /\ exc' = r.exc
              /\ failure' = r.failure
              /\ pc' = after(r.exc, "figure")
    /\ career_df' = <<>>
    /\ team_id' = <<>>
    /\ UNCHANGED <<player_name, season_id, args, ax, calls, plots, shown>>

\* line 109: plt.figure makes a new current figure, so plt.gca() in
\* plot_shot_chart gives fresh Axes
Figure ==
    /\ pc = "figure"
    /\ ax' = FreshAxes
    /\ pc' = "plot"
    /\ UNCHANGED <<player_name, season_id, requests, data, args, calls, plots,
                   career_df, team_id, exc, failure, shown>>

\* line 110
PlotShotChart ==
    /\ pc = "plot"
    /\ LET r == plot_shot_chart(data, args.title, ax, args.court_color,
                                args.court_lw, args.line_color)
       IN  /\ ax' = r.ax
           /\ calls' = Append(calls, r.court)
           /\ plots' = Append(plots, [exc |-> r.exc, court |-> Len(calls) + 1])
           /\ exc' = r.exc
           /\ failure' = IF r.exc = "none" THEN "none" ELSE "MissingColumn"
           /\ pc' = after(r.exc, "show")
    /\ UNCHANGED <<player_name, season_id, requests, data, args, career_df,
                   team_id, shown>>

\* a faulty script: plt.show() in a finally block
ShowReachedAlways == pc \in {"show", "aborted"}

\* control reaches line 111 only when every statement before it returned
ShowReached == pc = "show"

\* line 111
Show ==
    /\ ShowReached
    /\ shown' = TRUE
    /\ pc' = "done"
    /\ UNCHANGED <<player_name, season_id, requests, data, args, ax, calls,
                   plots, career_df, team_id, exc, failure>>

Next ==
    \/ GetPlayers
    \/ PlayerCareerStats
    \/ ShotChartDetail
    \/ Figure
    \/ PlotShotChart
    \/ Show

Spec == Init /\ [][Next]_vars

----------------------------------------------------------------------------
(* plot_shot_chart called directly: on any shot frame and any style        *)
(* arguments, once on fresh Axes and then again on the Axes it left        *)

ApiArgs ==
    { [court_color |-> cc, court_lw |-> lw, line_color |-> lc, title |-> <<>>]
        : cc \in Colors, lw \in LineWidths, lc \in Colors }

\* the calls made from outside so far
TopCalls ==
    Len(plots) + Cardinality({i \in 1..Len(calls) : calls[i].by = "caller"})

InitApi(Frames) ==
    /\ pc = "api"
    /\ player_name = ""
    /\ season_id = ""
    /\ requests = <<>>
    /\ data \in Frames
    /\ args \in ApiArgs
    /\ ax = FreshAxes
    /\ calls = <<>>
    /\ plots = <<>>
    /\ career_df = <<>>
    /\ team_id = <<>>
    /\ exc = "none"
    /\ failure = "none"
    /\ shown = FALSE

\* plot_shot_chart(data, title, ax, court_color, court_lw, line_color)
CallPlotShotChart ==
    /\ TopCalls < MaxCalls
    /\ LET r == plot_shot_chart(data, args.title, ax, args.court_color,
                                args.court_lw, args.line_color)
       IN  /\ ax' = r.ax
           /\ calls' = Append(calls, r.court)
           /\ plots' = Append(plots, [exc |-> r.exc, court |-> Len(calls) + 1])
           /\ exc' = r.exc
           /\ failure' = IF r.exc = "none" THEN "none" ELSE "MissingColumn"
    /\ pc' = "plot_shot_chart"
    /\ UNCHANGED <<player_name, season_id, requests, data, args, career_df,
                   team_id, shown>>

InitPlot == InitApi(ShotFrames)

NextPlot == CallPlotShotChart

SpecPlot == InitPlot /\ [][NextPlot]_vars

----------------------------------------------------------------------------
(* draw_court called directly, with and without the outer lines, before    *)
(* and after plot_shot_chart renders shots on the same Axes                *)

\* draw_court(ax, color, lw, outer_lines)
CallDrawCourt ==
    /\ TopCalls < MaxCalls
    /\ \E color \in Colors, outer_lines \in BOOLEAN :
          LET a == draw_court(ax, color, args.court_lw, outer_lines)
          IN  /\ ax' = a
              /\ calls' = Append(calls, court_call(ax, a, color, args.court_lw,
                                                   outer_lines, "caller"))
    /\ pc' = "draw_court"
    /\ exc' = "none"
    /\ failure' = "none"
    /\ UNCHANGED <<player_name, season_id, requests, data, args, plots,
                   career_df, team_id, shown>>

\* frames with all columns and at most one row of each kind
CourtFrames ==
    FramesOver(FewShotRows, {ScatterColumns}, Cardinality(FewShotRows))

InitCourt == InitApi(CourtFrames)

NextCourt ==
    \/ CallDrawCourt
    \/ CallPlotShotChart

SpecCourt == InitCourt /\ [][NextCourt]_vars

----------------------------------------------------------------------------
(* Properties of plot_shot_chart, under SpecPlot *)

\* the last call from outside was plot_shot_chart, and it returned
PlotReturned == pc = "plot_shot_chart" /\ exc = "none"

\* the two series the last plot_shot_chart call scattered
MissedSeries == ax.collections[Len(ax.collections) - 1]

MadeSeries == ax.collections[Len(ax.collections)]

\* the coordinates of the records of data whose outcome is the given event,
\* in record order
CoordsOf(event) ==
    LET rs == SelectSeq(data.rows, LAMBDA r : r.EVENT_TYPE = <<event>>)
    IN  [k \in 1..Len(rs) |-> <<rs[k].LOC_X, rs[k].LOC_Y>>]

Recognized == {<<"Made Shot">>, <<"Missed Shot">>}

\* C1: after plot_shot_chart returns, the "Missed" series is exactly the
\* coordinates of the records whose outcome is Missed, the "Made" series is
\* exactly the coordinates of the records whose outcome is Made, and the two
\* series together hold one point per Made or Missed record: no record is in
\* both, and a record with any other outcome is in neither.
C1_SeriesPartition ==
    PlotReturned =>
        /\ MissedSeries.label = "Missed"
        /\ MissedSeries.offsets = CoordsOf("Missed Shot")
        /\ MadeSeries.label = "Made"
        /\ MadeSeries.offsets = CoordsOf("Made Shot")
        /\ Len(MissedSeries.offsets) + Len(MadeSeries.offsets)
             = Cardinality({i \in 1..Len(data.rows) :
                              data.rows[i].EVENT_TYPE \in Recognized})

\* a made, a missed and an unrecognized record were plotted
C1_Witness ==
    /\ PlotReturned
    /\ Len(data.rows) = 3
    /\ data.rows[1].EVENT_TYPE = <<"Made Shot">>
    /\ data.rows[2].EVENT_TYPE = <<"Missed Shot">>
    /\ data.rows[3].EVENT_TYPE = <<"Unknown">>
    /\ Len(MadeSeries.offsets) = 1
    /\ Len(MissedSeries.offsets) = 1

\* record i of data lacks field c: the frame has no such column, or the
\* record's cell in it is null
Lacks(i, c) == c \notin data.columns \/ data.rows[i][c] = Null

Malformed(i) == \E c \in ScatterColumns : Lacks(i, c)

\* the coordinates of the well-formed records with the given outcome
WellFormedCoordsOf(event) ==
    LET ok == SelectSeq(Indices(data.rows),
                        LAMBDA i : /\ ~ Malformed(i)
                                   /\ data.rows[i].EVENT_TYPE = <<event>>)
    IN  [k \in 1..Len(ok) |-> <<data.rows[ok[k]].LOC_X, data.rows[ok[k]].LOC_Y>>]

\* what C5 asks of a call: it returned, the well-formed records are drawn in
\* their series and the legend names the two series
RenderedWellFormed ==
    /\ exc = "none"
    /\ Drawn(MissedSeries) = WellFormedCoordsOf("Missed Shot")
    /\ Drawn(MadeSeries) = WellFormedCoordsOf("Made Shot")
    /\ Len(ax.legend) = Len(ax.collections)
    /\ ax.legend[Len(ax.legend)] = "Made"

\* C5: when the shot collection holds a record that lacks x, y or outcome,
\* plot_shot_chart skips that record and completes: no error reaches the
\* caller, the well-formed records are drawn and the legend is added.
C5_MalformedRecordSkipped ==
    (pc = "plot_shot_chart" /\ \E i \in 1..Len(data.rows) : Malformed(i))
        => RenderedWellFormed

\* C5 for the records that lack only the value of a field: the frame has the
\* three columns and some cell is null
C5_NullCellsSkipped ==
    (/\ pc = "plot_shot_chart"
     /\ ScatterColumns \subseteq data.columns
     /\ \E i \in 1..Len(data.rows) : Malformed(i))
        => RenderedWellFormed

\* C6: after plot_shot_chart returns, the x-extent is (-250, 250) and the
\* y-extent is (422.5, -47.5), in that order, whatever the shot coordinates:
\* neither the court nor the two scatters leave the view to be autoscaled.
C6_Extents ==
    PlotReturned =>
        /\ ~ autoscales_x(ax) /\ ax.xlim = <<-2500, 2500>>
        /\ ~ autoscales_y(ax) /\ ax.ylim = <<4225, -475>>

\* a shot outside the extents was scattered
C6_Witness ==
    /\ PlotReturned
    /\ \E i \in 1..Len(MissedSeries.offsets) :
          LET o == MissedSeries.offsets[i]
          IN  o[1] # Null /\ o[2] # Null /\ o[1][1] < -2500 /\ o[2][1] > 4225

\* the draw_court invocation of the last plot_shot_chart call
LastCourt == calls[plots[Len(plots)].court]

\* what C9 says of the last plot_shot_chart call, for a stroke color: one
\* draw_court invocation per call, made with that color, the call's
\* court_lw and no outer lines, and every primitive it added has that color
CourtDrawnWith(stroke) ==
    /\ Len(calls) = Len(plots)
    /\ LastCourt.by = "plot_shot_chart"
    /\ LastCourt.color = stroke
    /\ LastCourt.lw = args.court_lw
    /\ LastCourt.outer_lines = FALSE
    /\ LastCourt.added # <<>>
    /\ \A k \in 1..Len(LastCourt.added) :
          /\ LastCourt.added[k].color = stroke
          /\ LastCourt.added[k].linewidth = args.court_lw
    /\ LastCourt.added
         = SubSeq(ax.patches, Len(ax.patches) - Len(LastCourt.added) + 1,
                  Len(ax.patches))

\* C9 as stated: plot_shot_chart invokes draw_court exactly once, with its
\* court_color argument as the stroke color, its court_lw as the line width
\* and no outer boundary, so every court primitive has the color court_color.
C9_Original == pc = "plot_shot_chart" => CourtDrawnWith(args.court_color)

\* C9 amended: plot_shot_chart invokes draw_court exactly once, with its
\* line_color argument as the stroke color, its court_lw as the line width
\* and no outer boundary, so every court primitive has the color line_color.
C9_StrokeIsLineColor == pc = "plot_shot_chart" => CourtDrawnWith(args.line_color)

\* a call whose court_color and line_color differ and whose width is not the
\* default
C9_Witness ==
    /\ pc = "plot_shot_chart"
    /\ args.court_color # args.line_color
    /\ args.court_lw = 1
    /\ Len(LastCourt.added) > 0

----------------------------------------------------------------------------
(* Properties of draw_court, under SpecCourt *)

\* C2 as stated: a call without the outer boundary adds exactly 11
\* primitives, a call with it exactly 12.
C2_Original ==
    \A i \in 1..Len(calls) :
        Len(calls[i].added) = IF calls[i].outer_lines THEN 12 ELSE 11

\* C2 amended: a call without the outer boundary adds exactly 12 primitives,
\* a call with it exactly 13.
C2_PrimitiveCount ==
    \A i \in 1..Len(calls) :
        Len(calls[i].added) = IF calls[i].outer_lines THEN 13 ELSE 12

\* draw_court has run with and without the outer boundary
C2_Witness ==
    /\ \E i \in 1..Len(calls) : calls[i].outer_lines
    /\ \E i \in 1..Len(calls) : ~ calls[i].outer_lines

\* C8: two draw_court calls with the same color, line width and
\* include_outer_boundary add the same sequence of primitives, whatever was
\* drawn or scattered on the Axes between them.
C8_SameArgumentsSamePrimitives ==
    \A i, j \in 1..Len(calls) :
        (/\ calls[i].color = calls[j].color
         /\ calls[i].lw = calls[j].lw
         /\ calls[i].outer_lines = calls[j].outer_lines)
            => calls[i].added = calls[j].added

\* two calls with the same arguments, one before any shot was scattered and
\* one after a scatter of a non-empty frame
C8_Witness ==
    /\ data.rows # <<>>
    /\ \E i, j \in 1..Len(calls) :
          /\ i < j
          /\ calls[i].color = calls[j].color
          /\ calls[i].lw = calls[j].lw
          /\ calls[i].outer_lines = calls[j].outer_lines
          /\ calls[i].series_before = 0
          /\ calls[j].series_before > 0

----------------------------------------------------------------------------
(* Properties of get_player_shotchartdetail and of the script, under Spec *)

Min(S) == CHOOSE m \in S : \A n \in S : m <= n

\* the directory has an entry with the given full name
Known(name) == \E i \in 1..Len(nba_players) : nba_players[i].full_name = name

\* the id of the directory's first entry with the given full name
IdOf(name) ==
    LET i == Min({k \in 1..Len(nba_players) : nba_players[k].full_name = name})
    IN  nba_players[i].id

Endpoints(log) == [i \in 1..Len(log) |-> log[i].endpoint]

\* C3: when the name matches no entry of the player directory, the fetch
\* fails with the player-not-found ValueError, and the directory lookup is
\* the only provider interaction of the run.
C3_PlayerNotFound ==
    (pc # "start" /\ ~ Known(player_name)) =>
        /\ pc = "aborted"
        /\ exc = "ValueError"
        /\ failure = "PlayerNotFound"
        /\ Endpoints(requests) = <<"get_players">>
        /\ ~ shown

\* the lookup of an unknown name has run
C3_Witness ==
    /\ player_name = "Nonexistent Player"
    /\ pc = "aborted"
    /\ Len(requests) = 1

\* the exception classes the fetch raises when the player is not found, when
\* a provider call fails and when a response lacks the expected frames or
\* columns
OtherFailureExceptions == {"ValueError", "NetworkError", "IndexError", "KeyError"}

\* the classes of OtherFailureExceptions are those of the other failures
OtherFailuresRaise ==
    /\ failure = "PlayerNotFound" => exc = "ValueError"
    /\ failure = "NetworkError" => exc = "NetworkError"
    /\ failure = "MalformedResponse" => exc \in {"IndexError", "KeyError"}

\* a response without frames ends the fetch with an IndexError
MalformedRaisesIndexError == failure = "MalformedResponse" /\ exc = "IndexError"

\* C4: when the player is found but the career history has no row for the
\* requested season, the fetch fails with an error of its own, SeasonNotFound,
\* distinct from the errors of the other failures.
C4_SeasonNotFound ==
    failure = "SeasonNotFound" =>
        /\ pc = "aborted"
        /\ exc # "none"
        /\ exc \notin OtherFailureExceptions

\* what holds of C4: the fetch fails and returns no shot collection
C4_SeasonNotFoundFails ==
    failure = "SeasonNotFound" =>
        /\ pc = "aborted"
        /\ exc = "IndexError"
        /\ data = NoFrame
        /\ Endpoints(requests) = <<"get_players", "PlayerCareerStats">>

\* C7: the figure is displayed only after the fetch and the whole of
\* plot_shot_chart have completed without error; once an error has occurred
\* the run is over and the figure is never displayed.
C7_ShowOnlyAfterSuccess ==
    /\ shown =>
          /\ exc = "none"
          /\ Endpoints(requests) = <<"get_players", "PlayerCareerStats", "ShotChartDetail">>
          /\ Len(plots) = 1
          /\ plots[1].exc = "none"
          /\ ax.legend = <<"Missed", "Made">>
    /\ exc # "none" => (pc = "aborted" /\ ~ shown)
    /\ pc = "aborted" => (exc # "none" /\ ~ shown)

\* a chart with shots in it has been displayed
C7_Witness ==
    /\ shown
    /\ pc = "done"
    /\ data.rows # <<>>
    /\ Len(ax.collections) = 2

\* the rows of the career frame for the requested season
SeasonRows ==
    {i \in 1..Len(career_df[1].rows) :
        career_df[1].rows[i].SEASON_ID = <<season_id>>}

\* the team of the first career row of the requested season
FirstSeasonTeam == career_df[1].rows[Min(SeasonRows)].TEAM_ID[1]

\* the requests are issued in the order directory, career, shots, each at
\* most once, and a fetch that returned has issued all three
RequestOrder ==
    /\ \E n \in 0..3 :
          Endpoints(requests)
            = SubSeq(<<"get_players", "PlayerCareerStats", "ShotChartDetail">>, 1, n)
    /\ pc \in {"figure", "plot", "show", "done"} => Len(requests) = 3
    /\ \A i \in 2..Len(requests) : requests[i].player_id = IdOf(player_name)

\* the step that issues the shot request sends the player id, the requested
\* season and the team of the first career row of that season
ShotRequestCarriesFirstTeam ==
    pc = "shots" =>
        requests' = Append(requests,
                           Request("ShotChartDetail", IdOf(player_name),
                                   FirstSeasonTeam, season_id))

\* C10: on a successful fetch the requests are the directory lookup, the
\* career lookup and the shot query, in that order and once each, and the shot
\* query carries the player id, the requested season and the team id of the
\* first career row of that season, also when several rows match.
C10_RequestOrderAndFirstTeam ==
    []RequestOrder /\ [][ShotRequestCarriesFirstTeam]_vars

\* the team has been selected from a career with two rows of the requested
\* season on different teams
C10_Witness ==
    /\ pc = "shots"
    /\ Cardinality(SeasonRows) >= 2
    /\ \E i, j \in SeasonRows :
          career_df[1].rows[i].TEAM_ID # career_df[1].rows[j].TEAM_ID
    /\ team_id = <<FirstSeasonTeam>>

====
